---- MODULE Spec2Model ----
(***************************************************************************)
(* Model of src/base32.c (lua-base32): the RFC 4648 / Crockford Base32     *)
(* encoder and decoder exported to Lua as base32.encode and base32.decode. *)
(*                                                                         *)
(* Bytes and characters are integers 0..255.  The C unsigned registers     *)
(* (uint64_t, uint32_t) are bit vectors, functions from bit position       *)
(* (0 = least significant) to {0,1}, so that shifts lose exactly the bits  *)
(* the C shifts lose.                                                      *)
(***************************************************************************)
EXTENDS Integers, Sequences, FiniteSets, TLC

VARIABLES
    calls,      \* thread -> the frame (locals, return values) of its call
    hist,       \* thread -> number of calls the thread has completed
    data,       \* pure-function specifications: the byte string argument
    alpha,      \* pure-function specifications: the option (0 rfc, 1 crockford)
    text,       \* pure-function specifications: a text (encoder output / input)
    variant,    \* pure-function specifications: an edited copy of text
    res,        \* the frame of the last call applied (to data or text)
    res2,       \* the frame of the call applied to variant
    phase       \* pure-function specifications: what has been applied so far

vars == <<calls, hist, data, alpha, text, variant, res, res2, phase>>

----------------------------------------------------------------------------
(* Bounds of the model *)

\* longest byte string given to encode
MaxLen == 6
\* longest text given to decode in the exhaustive part of the inputs
MaxText == 8
\* longest run of data characters in the texts decoded step by step
MaxStepText == 4
\* longest Crockford text whose variants are explored
MaxCrock == 2
\* most '-' separators a variant holds
MaxHyphens == 2
\* calls a thread makes
MaxCalls == 2

----------------------------------------------------------------------------
(* Program constants *)

EINVAL == 22
EILSEQ == 84
\* '=' and '-'
PAD_CHAR == 61
HYPHEN == 45
\* the 0xFF entries of the decode tables
INVALID == 255

----------------------------------------------------------------------------
(* C unsigned arithmetic on bit vectors *)

Pow2(n) == IF n = 0 THEN 1 ELSE IF n = 1 THEN 2 ELSE IF n = 2 THEN 4
           ELSE IF n = 3 THEN 8 ELSE IF n = 4 THEN 16 ELSE IF n = 5 THEN 32
           ELSE IF n = 6 THEN 64 ELSE IF n = 7 THEN 128 ELSE 256

\* bit k of a small non-negative integer
BitOf(v, k) == IF k > 7 THEN 0 ELSE (v \div Pow2(k)) % 2

\* a register of width w holding 0
Zero(w) == [k \in 0..(w - 1) |-> 0]

\* x << n (bits shifted past the width are lost)
Shl(x, n) == [k \in DOMAIN x |-> IF k >= n THEN x[k - n] ELSE 0]

\* x >> n
Shr(x, n) == [k \in DOMAIN x |-> IF (k + n) \in DOMAIN x THEN x[k + n] ELSE 0]

\* x | v for a byte-sized v
OrByte(x, v) ==
    [k \in DOMAIN x |-> IF x[k] = 1 \/ BitOf(v, k) = 1 THEN 1 ELSE 0]

\* x & 0xFF
AndFF(x) ==
    x[0] + 2 * x[1] + 4 * x[2] + 8 * x[3] + 16 * x[4] + 32 * x[5]
    + 64 * x[6] + 128 * x[7]

\* x & 0x1F
And1F(x) == x[0] + 2 * x[1] + 4 * x[2] + 8 * x[3] + 16 * x[4]

----------------------------------------------------------------------------
(* Lookup tables *)

\* n entries 0xFF
Fill(n) == [k \in 1..n |-> INVALID]

RFC_DECODE_TABLE ==
    Fill(50)
    \o <<26, 27, 28, 29, 30, 31>>
    \o Fill(9)
    \o <<0, 1, 2, 3, 4, 5, 6, 7, 8, 9, 10, 11, 12, 13, 14, 15, 16, 17, 18, 19,
         20, 21, 22, 23, 24, 25>>
    \o Fill(6)
    \o <<0, 1, 2, 3, 4, 5, 6, 7, 8, 9, 10, 11, 12, 13, 14, 15, 16, 17, 18, 19,
         20, 21, 22, 23, 24, 25>>
    \o Fill(133)

\* mutant of CROCKFORD_DECODE_TABLE: the a-z row is left invalid
CROCKFORD_DECODE_TABLE_UpperOnly ==
    Fill(48)
    \o <<0, 1, 2, 3, 4, 5, 6, 7, 8, 9>>
    \o Fill(7)
    \o <<10, 11, 12, 13, 14, 15, 16, 17, 1, 18, 19, 1, 20, 21, 0, 22, 23, 24,
         25, 26, INVALID, 27, 28, 29, 30, 31>>
    \o Fill(6)
    \o Fill(26)
    \o Fill(133)

CROCKFORD_DECODE_TABLE ==
    Fill(48)
    \o <<0, 1, 2, 3, 4, 5, 6, 7, 8, 9>>
    \o Fill(7)
    \o <<10, 11, 12, 13, 14, 15, 16, 17, 1, 18, 19, 1, 20, 21, 0, 22, 23, 24,
         25, 26, INVALID, 27, 28, 29, 30, 31>>
    \o Fill(6)
    \o <<10, 11, 12, 13, 14, 15, 16, 17, 1, 18, 19, 1, 20, 21, 0, 22, 23, 24,
         25, 26, INVALID, 27, 28, 29, 30, 31>>
    \o Fill(133)

\* "ABCDEFGHIJKLMNOPQRSTUVWXYZ234567"
RFC_ALPHABET ==
    <<65, 66, 67, 68, 69, 70, 71, 72, 73, 74, 75, 76, 77, 78, 79, 80, 81, 82,
      83, 84, 85, 86, 87, 88, 89, 90, 50, 51, 52, 53, 54, 55>>

\* "0123456789ABCDEFGHJKMNPQRSTVWXYZ"
CROCKFORD_ALPHABET ==
    <<48, 49, 50, 51, 52, 53, 54, 55, 56, 57, 65, 66, 67, 68, 69, 70, 71, 72,
      74, 75, 77, 78, 80, 81, 82, 83, 84, 86, 87, 88, 89, 90>>

\* tbl[c] of decode_lua: tbl is "RFC" or "CROCKFORD", c a byte
DecodeLookup(tbl, c) ==
    IF tbl = "RFC" THEN RFC_DECODE_TABLE[c + 1]
    ELSE CROCKFORD_DECODE_TABLE[c + 1]

\* tbl[v] of encode_lua: v in 0..31
EncodeLookup(tbl, v) ==
    IF tbl = "RFC" THEN RFC_ALPHABET[v + 1] ELSE CROCKFORD_ALPHABET[v + 1]

----------------------------------------------------------------------------
(* Lua values a call returns *)

LuaNil == [type |-> "nil"]

LuaString(s) == [type |-> "string", str |-> s]

\* lua_errno_new_with_message(L, errno, op, msg)
LuaError(code, op, msg, args) ==
    [type |-> "error", code |-> code, op |-> op, msg |-> msg, args |-> args]

MSG_LENGTH == "RFC 4648 Base32 requires input length to be a multiple of 8"
MSG_PADDING == "RFC 4648 Base32 padding length must be 0, 1, 3, 4, or 6"
MSG_ILLEGAL == "Illegal character in Base32 string: '%c' (0x%02X) at position %d"

----------------------------------------------------------------------------
(* decode_lua, one step per statement group *)

\* the frame of a thread that has made no call yet (errno is thread-local
\* and outlives the calls; everything else is a local of the call)
NoCall ==
    [fn |-> "none", src |-> <<>>, len |-> 0, opt |-> 0, tbl |-> "NULL",
     acc |-> Zero(64), nbits |-> 0, b |-> <<>>, npad |-> 0, tail |-> 0,
     i |-> 0, head |-> 0, outlen |-> 0, errno |-> 0,
     pc |-> "return", ret |-> <<>>]

\* mutant of DecodeEnter: acc and nbits keep their values between calls
\* (static storage)
DecodeEnterStatic(prev, src, opt) ==
    [fn |-> "decode", src |-> src, len |-> Len(src), opt |-> opt,
     tbl |-> "NULL", acc |-> prev.acc, nbits |-> prev.nbits, b |-> <<>>,
     npad |-> 0, tail |-> 0, i |-> 0, head |-> 0, outlen |-> 0,
     errno |-> prev.errno, pc |-> "empty", ret |-> <<>>]

\* the locals of decode_lua after their declarations
DecodeEnter(prev, src, opt) ==
    [fn |-> "decode", src |-> src, len |-> Len(src), opt |-> opt,
     tbl |-> "NULL", acc |-> Zero(64), nbits |-> 0, b |-> <<>>, npad |-> 0,
     tail |-> 0, i |-> 0, head |-> 0, outlen |-> 0, errno |-> prev.errno,
     pc |-> "empty", ret |-> <<>>]

\* mutant of DecodeFail: the bytes decoded so far are pushed instead of nil
DecodeFailPartial(f, code, msg, args) ==
    [f EXCEPT !.errno = code,
              !.ret = <<LuaString(f.b),
                        LuaError(code, "base32.decode", msg, args)>>,
              !.pc = "return"]

\* lua_pushnil; errno = code; lua_errno_new_with_message(L, errno, ...);
\* return 2
DecodeFail(f, code, msg, args) ==
    [f EXCEPT !.errno = code,
              !.ret = <<LuaNil, LuaError(code, "base32.decode", msg, args)>>,
              !.pc = "return"]

\* if (len == 0) return ""; errno = 0
DecodeEmpty(f) ==
    IF f.len = 0
    THEN [f EXCEPT !.ret = <<LuaString(<<>>)>>, !.pc = "return"]
    ELSE [f EXCEPT !.errno = 0, !.pc = "select"]

\* switch (opt): table selection and the length check of case 0
DecodeSelect(f) ==
    IF f.opt = 0
    THEN IF f.len % 8 # 0
         THEN DecodeFail([f EXCEPT !.tbl = "RFC"], EINVAL, MSG_LENGTH, <<>>)
         ELSE [f EXCEPT !.tbl = "RFC", !.npad = 0, !.tail = f.len,
                        !.pc = "strip"]
    ELSE [f EXCEPT !.tbl = "CROCKFORD", !.i = 0, !.pc = "scan"]

\* mutant of DecodeStrip: the stripped characters are not counted
DecodeStripUncounted(f) ==
    IF f.tail > 0 /\ f.src[f.tail] = PAD_CHAR
    THEN [f EXCEPT !.len = f.len - 1, !.tail = f.tail - 1]
    ELSE [f EXCEPT !.pc = "padcheck"]

\* one iteration of: for (; tail > src && tail[-1] == '='; --tail)
DecodeStrip(f) ==
    IF f.tail > 0 /\ f.src[f.tail] = PAD_CHAR
    THEN LET g == [f EXCEPT !.len = f.len - 1, !.npad = f.npad + 1]
         IN  IF g.npad > 6
             THEN DecodeFail(g, EINVAL, MSG_PADDING, <<>>)
             ELSE [g EXCEPT !.tail = f.tail - 1]
    ELSE [f EXCEPT !.pc = "padcheck"]

\* mutant of DecodePadCheck: 5 is taken for a legal count instead of 6
DecodePadCheckFive(f) ==
    IF f.npad # 0 /\ f.npad # 1 /\ f.npad # 3 /\ f.npad # 4 /\ f.npad # 5
    THEN DecodeFail(f, EINVAL, MSG_PADDING, <<>>)
    ELSE [f EXCEPT !.i = 0, !.pc = "scan"]

\* if (npad != 0 && npad != 1 && npad != 3 && npad != 4 && npad != 6)
DecodePadCheck(f) ==
    IF f.npad # 0 /\ f.npad # 1 /\ f.npad # 3 /\ f.npad # 4 /\ f.npad # 6
    THEN DecodeFail(f, EINVAL, MSG_PADDING, <<>>)
    ELSE [f EXCEPT !.i = 0, !.pc = "scan"]

\* mutant of DecodeScan: the position reported is the 0-based index
DecodeScanZeroBased(f) ==
    IF f.i < f.len
    THEN LET c == f.src[f.i + 1]
             dc == DecodeLookup(f.tbl, c)
         IN  IF c = HYPHEN /\ f.tbl = "CROCKFORD"
             THEN [f EXCEPT !.i = f.i + 1]
             ELSE IF dc > 31
             THEN DecodeFail(f, EILSEQ, MSG_ILLEGAL, <<c, c, f.i>>)
             ELSE [f EXCEPT !.acc = OrByte(Shl(f.acc, 5), dc),
                            !.nbits = f.nbits + 5,
                            !.pc = "flush"]
    ELSE [f EXCEPT !.pc = "drain"]

\* one iteration of the scan loop up to nbits += 5
DecodeScan(f) ==
    IF f.i < f.len
    THEN LET c == f.src[f.i + 1]
             dc == DecodeLookup(f.tbl, c)
         IN  IF c = HYPHEN /\ f.tbl = "CROCKFORD"
             THEN [f EXCEPT !.i = f.i + 1]
             ELSE IF dc > 31
             THEN DecodeFail(f, EILSEQ, MSG_ILLEGAL, <<c, c, f.i + 1>>)
             ELSE [f EXCEPT !.acc = OrByte(Shl(f.acc, 5), dc),
                            !.nbits = f.nbits + 5,
                            !.pc = "flush"]
    ELSE [f EXCEPT !.pc = "drain"]

\* mutant of DecodeFlush: the flushed bits stay in the accumulator
DecodeFlushKeepsBits(f) ==
    IF f.nbits >= 40
    THEN [f EXCEPT !.b = f.b \o <<AndFF(Shr(f.acc, 32)), AndFF(Shr(f.acc, 24)),
                                  AndFF(Shr(f.acc, 16)), AndFF(Shr(f.acc, 8)),
                                  AndFF(f.acc)>>,
                   !.nbits = f.nbits - 40,
                   !.i = f.i + 1,
                   !.pc = "scan"]
    ELSE [f EXCEPT !.i = f.i + 1, !.pc = "scan"]

\* if (nbits >= 40) { emit 5 bytes; acc >>= 40; nbits -= 40; } and i++
DecodeFlush(f) ==
    IF f.nbits >= 40
    THEN [f EXCEPT !.b = f.b \o <<AndFF(Shr(f.acc, 32)), AndFF(Shr(f.acc, 24)),
                                  AndFF(Shr(f.acc, 16)), AndFF(Shr(f.acc, 8)),
                                  AndFF(f.acc)>>,
                   !.acc = Shr(f.acc, 40),
                   !.nbits = f.nbits - 40,
                   !.i = f.i + 1,
                   !.pc = "scan"]
    ELSE [f EXCEPT !.i = f.i + 1, !.pc = "scan"]

\* one iteration of: while (nbits >= 8)
DecodeDrain(f) ==
    IF f.nbits >= 8
    THEN LET n == f.nbits - 8
         IN  [f EXCEPT !.nbits = n, !.b = Append(f.b, AndFF(Shr(f.acc, n)))]
    ELSE [f EXCEPT !.pc = "push"]

\* mutant of DecodePush: non-zero leftover bits are rejected
DecodePushStrict(f) ==
    IF \E k \in 0..(f.nbits - 1) : f.acc[k] = 1
    THEN DecodeFail(f, EINVAL, MSG_PADDING, <<>>)
    ELSE [f EXCEPT !.ret = <<LuaString(f.b)>>, !.pc = "return"]

\* luaL_pushresult(&b); return 1
DecodePush(f) == [f EXCEPT !.ret = <<LuaString(f.b)>>, !.pc = "return"]

DecodeStep(f) ==
    CASE f.pc = "empty" -> DecodeEmpty(f)
      [] f.pc = "select" -> DecodeSelect(f)
      [] f.pc = "strip" -> DecodeStrip(f)
      [] f.pc = "padcheck" -> DecodePadCheck(f)
      [] f.pc = "scan" -> DecodeScan(f)
      [] f.pc = "flush" -> DecodeFlush(f)
      [] f.pc = "drain" -> DecodeDrain(f)
      [] f.pc = "push" -> DecodePush(f)

----------------------------------------------------------------------------
(* encode_lua, one step per statement group *)

\* the locals of encode_lua after their declarations
EncodeEnter(prev, src, opt) ==
    [fn |-> "encode", src |-> src, len |-> Len(src), opt |-> opt,
     tbl |-> "NULL", acc |-> Zero(64), nbits |-> 0, b |-> <<>>, npad |-> 0,
     tail |-> Len(src), i |-> 0, head |-> 0, outlen |-> 0,
     errno |-> prev.errno, pc |-> "empty", ret |-> <<>>]

\* if (len == 0) return ""; switch (opt) selects the alphabet
EncodeEmpty(f) ==
    IF f.len = 0
    THEN [f EXCEPT !.ret = <<LuaString(<<>>)>>, !.pc = "return"]
    ELSE [f EXCEPT !.tbl = IF f.opt = 0 THEN "RFC" ELSE "CROCKFORD",
                   !.pc = "bulk"]

\* the uint64_t acc loaded from head[0..4]
Load5(src, head) ==
    OrByte(Shl(OrByte(Shl(OrByte(Shl(OrByte(Shl(OrByte(Zero(64),
        src[head + 1]), 8), src[head + 2]), 8), src[head + 3]), 8),
        src[head + 4]), 8), src[head + 5])

\* one iteration of: while ((tail - head) >= 5)
EncodeBulk(f) ==
    IF f.tail - f.head >= 5
    THEN LET acc == Load5(f.src, f.head)
             buf == <<EncodeLookup(f.tbl, And1F(Shr(acc, 35))),
                      EncodeLookup(f.tbl, And1F(Shr(acc, 30))),
                      EncodeLookup(f.tbl, And1F(Shr(acc, 25))),
                      EncodeLookup(f.tbl, And1F(Shr(acc, 20))),
                      EncodeLookup(f.tbl, And1F(Shr(acc, 15))),
                      EncodeLookup(f.tbl, And1F(Shr(acc, 10))),
                      EncodeLookup(f.tbl, And1F(Shr(acc, 5))),
                      EncodeLookup(f.tbl, And1F(acc))>>
         IN  [f EXCEPT !.b = f.b \o buf, !.outlen = f.outlen + 8,
                       !.head = f.head + 5]
    ELSE IF f.head < f.tail
    THEN [f EXCEPT !.acc = Zero(32), !.nbits = 0, !.pc = "load"]
    ELSE [f EXCEPT !.pc = "pad"]

\* one iteration of: while (head < tail) { acc = (acc << 8) | *head++; }
EncodeLoad(f) ==
    IF f.head < f.tail
    THEN [f EXCEPT !.acc = OrByte(Shl(f.acc, 8), f.src[f.head + 1]),
                   !.head = f.head + 1,
                   !.nbits = f.nbits + 8]
    ELSE [f EXCEPT !.pc = "groups"]

\* one iteration of: while (nbits >= 5)
EncodeGroups(f) ==
    IF f.nbits >= 5
    THEN LET n == f.nbits - 5
         IN  [f EXCEPT !.nbits = n,
                       !.b = Append(f.b, EncodeLookup(f.tbl,
                                                      And1F(Shr(f.acc, n)))),
                       !.outlen = f.outlen + 1]
    ELSE [f EXCEPT !.pc = "rest"]

\* mutant of EncodeRest: the remaining bits are not shifted into place
EncodeRestUnshifted(f) ==
    IF f.nbits > 0
    THEN [f EXCEPT !.b = Append(f.b, EncodeLookup(f.tbl, And1F(f.acc))),
                   !.outlen = f.outlen + 1,
                   !.pc = "pad"]
    ELSE [f EXCEPT !.pc = "pad"]

\* if (nbits > 0) emit tbl[(acc << (5 - nbits)) & 0x1F]
EncodeRest(f) ==
    IF f.nbits > 0
    THEN [f EXCEPT !.b = Append(f.b, EncodeLookup(f.tbl,
                                        And1F(Shl(f.acc, 5 - f.nbits)))),
                   !.outlen = f.outlen + 1,
                   !.pc = "pad"]
    ELSE [f EXCEPT !.pc = "pad"]

\* PAD[0 .. n-1]
PadRun(n) == [k \in 1..n |-> PAD_CHAR]

\* mutant of EncodePad: the output is padded whatever the alphabet
EncodePadAlways(f) ==
    IF f.outlen % 8 # 0
    THEN [f EXCEPT !.b = f.b \o PadRun(8 - (f.outlen % 8)), !.pc = "push"]
    ELSE [f EXCEPT !.pc = "push"]

\* if (tbl == RFC_ALPHABET && outlen % 8 != 0) add 8 - outlen % 8 pads
EncodePad(f) ==
    IF f.tbl = "RFC" /\ f.outlen % 8 # 0
    THEN [f EXCEPT !.b = f.b \o PadRun(8 - (f.outlen % 8)), !.pc = "push"]
    ELSE [f EXCEPT !.pc = "push"]

\* luaL_pushresult(&b); return 1
EncodePush(f) == [f EXCEPT !.ret = <<LuaString(f.b)>>, !.pc = "return"]

EncodeStep(f) ==
    CASE f.pc = "empty" -> EncodeEmpty(f)
      [] f.pc = "bulk" -> EncodeBulk(f)
      [] f.pc = "load" -> EncodeLoad(f)
      [] f.pc = "groups" -> EncodeGroups(f)
      [] f.pc = "rest" -> EncodeRest(f)
      [] f.pc = "pad" -> EncodePad(f)
      [] f.pc = "push" -> EncodePush(f)

----------------------------------------------------------------------------
(* A call run to its return: the function the Lua caller sees *)

Step(f) == IF f.fn = "decode" THEN DecodeStep(f) ELSE EncodeStep(f)

RECURSIVE Run(_)
Run(f) == IF f.pc = "return" THEN f ELSE Run(Step(f))

\* base32.decode(src, opt) called in a fresh thread
decode_lua(src, opt) == Run(DecodeEnter(NoCall, src, opt))

\* base32.encode(src, opt) called in a fresh thread
encode_lua(src, opt) == Run(EncodeEnter(NoCall, src, opt))

----------------------------------------------------------------------------
(* Inputs *)

SeqsUpTo(S, n) == UNION {[1..k -> S] : k \in 0..n}

\* the string a successful call returned
Returned(f) == f.ret[1].str

Succeeded(f) == Len(f.ret) = 1 /\ f.ret[1].type = "string"

Failed(f) == Len(f.ret) = 2 /\ f.ret[1].type = "nil" /\ f.ret[2].type = "error"

\* "foobar"
Foobar == <<102, 111, 111, 98, 97, 114>>

\* bytes 0x00, 0x66, 0xA5, 0xFF in every arrangement, and the prefixes of
\* "foobar"
EncodeInputs ==
    SeqsUpTo({0, 102, 165, 255}, MaxLen) \cup {SubSeq(Foobar, 1, k) : k \in 0..6}

----------------------------------------------------------------------------
(* Specification SpecRT: encode a byte string, then decode the text *)

InitRT ==
    /\ data \in EncodeInputs
    /\ alpha \in {0, 1}
    /\ text = <<>>
    /\ variant = <<>>
    /\ res = NoCall
    /\ res2 = NoCall
    /\ phase = "init"
    /\ calls = <<>>
    /\ hist = <<>>

\* text = base32.encode(data, alpha)
ApplyEncode ==
    /\ phase = "init"
    /\ res' = encode_lua(data, alpha)
    /\ text' = Returned(res')
    /\ phase' = "encoded"
    /\ UNCHANGED <<calls, hist, data, alpha, variant, res2>>

\* base32.decode(text, alpha) of the encoder's output
DecodeBack ==
    /\ phase = "encoded"
    /\ res2' = decode_lua(text, alpha)
    /\ phase' = "decoded"
    /\ UNCHANGED <<calls, hist, data, alpha, text, variant, res>>

NextRT == ApplyEncode \/ DecodeBack

SpecRT == InitRT /\ [][NextRT]_vars

----------------------------------------------------------------------------
(* The encoding as RFC 4648 and Crockford define it *)

\* the 8 bits of a byte, most significant first
ByteBits(v) ==
    <<(v \div 128) % 2, (v \div 64) % 2, (v \div 32) % 2, (v \div 16) % 2,
      (v \div 8) % 2, (v \div 4) % 2, (v \div 2) % 2, v % 2>>

\* the bits of a byte string, big-endian
BitString(bs) == [k \in 1..(8 * Len(bs)) |-> ByteBits(bs[((k - 1) \div 8) + 1])[((k - 1) % 8) + 1]]

\* bit k of a bit string, 0 beyond its end
BitAt(bits, k) == IF k <= Len(bits) THEN bits[k] ELSE 0

\* the g-th 5-bit group of a bit string, zero-filled on the right
Group5(bits, g) ==
    16 * BitAt(bits, 5 * g - 4) + 8 * BitAt(bits, 5 * g - 3)
    + 4 * BitAt(bits, 5 * g - 2) + 2 * BitAt(bits, 5 * g - 1)
    + BitAt(bits, 5 * g)

\* ceil(8 n / 5)
SymbolCount(n) == (8 * n + 4) \div 5

\* A-Z then 2-7
StandardSymbol(v) == IF v < 26 THEN 65 + v ELSE 50 + (v - 26)

\* 0-9 then A-Z without I, L, O, U
CrockfordLetters == SelectSeq([k \in 1..26 |-> 64 + k],
                              LAMBDA c : c \notin {73, 76, 79, 85})

CrockfordSymbol(v) == IF v < 10 THEN 48 + v ELSE CrockfordLetters[v - 9]

RefSymbols(bs, a) ==
    [g \in 1..SymbolCount(Len(bs)) |->
        IF a = 0 THEN StandardSymbol(Group5(BitString(bs), g))
        ELSE CrockfordSymbol(Group5(BitString(bs), g))]

RefPadCount(n, a) == IF a = 0 /\ n % 8 # 0 THEN 8 - (n % 8) ELSE 0

RefEncode(bs, a) ==
    RefSymbols(bs, a)
    \o [k \in 1..RefPadCount(SymbolCount(Len(bs)), a) |-> PAD_CHAR]

\* "MY======", "MZXQ====", "MZXW6===", "MZXW6YQ=", "MZXW6YTB",
\* "MZXW6YTBOI======"
FoobarText(k) ==
    CASE k = 0 -> <<>>
      [] k = 1 -> <<77, 89, 61, 61, 61, 61, 61, 61>>
      [] k = 2 -> <<77, 90, 88, 81, 61, 61, 61, 61>>
      [] k = 3 -> <<77, 90, 88, 87, 54, 61, 61, 61>>
      [] k = 4 -> <<77, 90, 88, 87, 54, 89, 81, 61>>
      [] k = 5 -> <<77, 90, 88, 87, 54, 89, 84, 66>>
      [] k = 6 -> <<77, 90, 88, 87, 54, 89, 84, 66, 79, 73, 61, 61, 61, 61,
                    61, 61>>

\* C1: round trip -- for every byte string and both alphabets, decoding the
\* encoder's output succeeds and returns exactly the byte string.
C1_RoundTrip ==
    phase = "decoded" => res2.ret = <<LuaString(data)>>

\* C1 witness: a byte string longer than 5 bytes with a tail (bulk path and
\* tail path both taken) has been encoded and decoded back.
C1_Witness ==
    /\ phase = "decoded"
    /\ Len(data) = 6
    /\ alpha = 1
    /\ Returned(res2) = data

\* C2: encode never fails and returns the reference encoding: big-endian bits
\* cut into 5-bit groups, the last zero-filled, ceil(8 len / 5) symbols of the
\* selected alphabet, Standard output padded with '=' to a multiple of 8,
\* Crockford output never padded; with the RFC 4648 "foobar" vectors.
C2_EncodeReference ==
    phase = "encoded" =>
        /\ res.ret = <<LuaString(RefEncode(data, alpha))>>
        /\ res.outlen = IF Len(data) = 0 THEN 0 ELSE SymbolCount(Len(data))
        /\ alpha = 1 => \A k \in 1..Len(text) : text[k] # PAD_CHAR
        /\ alpha = 0 => Len(text) % 8 = 0
        /\ \A k \in 0..6 :
              (alpha = 0 /\ data = SubSeq(Foobar, 1, k)) => text = FoobarText(k)

\* C2 witness: "foobar" encoded with the Standard alphabet gives
\* "MZXW6YTBOI======".
C2_Witness ==
    /\ phase = "encoded"
    /\ alpha = 0
    /\ data = Foobar
    /\ text = FoobarText(6)

----------------------------------------------------------------------------
(* Specification SpecDec: decode a text, then encode the bytes again *)

\* "MZXW6YTB", the encoding of "fooba": one full 40-bit group
FoobaText == <<77, 90, 88, 87, 54, 89, 84, 66>>

\* "AAAAAAA"
SevenA == <<65, 65, 65, 65, 65, 65, 65>>

\* "MY======", "MZ======", "MY!=====", "MY!A===="
TextMY == <<77, 89, 61, 61, 61, 61, 61, 61>>
TextMZ == <<77, 90, 61, 61, 61, 61, 61, 61>>
TextMYBang == <<77, 89, 33, 61, 61, 61, 61, 61>>
TextMYBangA == <<77, 89, 33, 65, 61, 61, 61, 61>>

\* every arrangement of 'M', '=', '-' alone and after a full group; every
\* byte alone, first of 8 and last of 8; the texts the specification names
DecodeInputs ==
    SeqsUpTo({77, PAD_CHAR, HYPHEN}, MaxText)
    \cup {FoobaText \o t : t \in SeqsUpTo({77, PAD_CHAR, HYPHEN}, MaxText)}
    \cup {<<c>> : c \in 0..255}
    \cup {<<c>> \o SevenA : c \in 0..255}
    \cup {SevenA \o <<c>> : c \in 0..255}
    \cup {FoobarText(k) : k \in 0..6}
    \cup {TextMY, TextMZ, TextMYBang, TextMYBangA}

InitDec ==
    /\ text \in DecodeInputs
    /\ alpha \in {0, 1}
    /\ data = <<>>
    /\ variant = <<>>
    /\ res = NoCall
    /\ res2 = NoCall
    /\ phase = "init"
    /\ calls = <<>>
    /\ hist = <<>>

\* base32.decode(text, alpha)
DecodeText ==
    /\ phase = "init"
    /\ res' = decode_lua(text, alpha)
    /\ phase' = "decoded"
    /\ UNCHANGED <<calls, hist, data, alpha, text, variant, res2>>

\* base32.encode of the bytes a successful decode returned
EncodeAgain ==
    /\ phase = "decoded"
    /\ Succeeded(res)
    /\ res2' = encode_lua(Returned(res), alpha)
    /\ phase' = "reencoded"
    /\ UNCHANGED <<calls, hist, data, alpha, text, variant, res>>

NextDec == DecodeText \/ EncodeAgain

SpecDec == InitDec /\ [][NextDec]_vars

----------------------------------------------------------------------------
(* The decoder's checks as the specification states them *)

RECURSIVE TrailingPads(_)
\* the number of '=' characters at the end of a text
TrailingPads(t) ==
    IF Len(t) > 0 /\ t[Len(t)] = PAD_CHAR
    THEN 1 + TrailingPads(SubSeq(t, 1, Len(t) - 1))
    ELSE 0

FailedWith(f, code, msg) ==
    /\ Failed(f)
    /\ f.ret[2].code = code
    /\ f.ret[2].op = "base32.decode"
    /\ f.ret[2].msg = msg

InvalidLength(f) == FailedWith(f, EINVAL, MSG_LENGTH)
InvalidPadding(f) == FailedWith(f, EINVAL, MSG_PADDING)
IllegalCharacter(f) == FailedWith(f, EILSEQ, MSG_ILLEGAL)

\* the trailing '=' run passes the Standard checks
LegalPads(r) == r \in {0, 1, 3, 4, 6}

\* the length/padding checks let the scan start
ChecksPass(t, a) == a = 1 \/ (Len(t) % 8 = 0 /\ LegalPads(TrailingPads(t)))

\* the part of the text the scan runs over
Scanned(t, a) ==
    IF a = 1 THEN t ELSE SubSeq(t, 1, Len(t) - TrailingPads(t))

IsUpper(c) == c \in 65..90
IsLower(c) == c \in 97..122
IsDigit(c) == c \in 48..57

\* the valid characters of each alphabet
ValidChar(a, c) ==
    IF a = 0
    THEN IsUpper(c) \/ IsLower(c) \/ c \in 50..55
    ELSE IsDigit(c) \/ ((IsUpper(c) \/ IsLower(c)) /\ c \notin {85, 117})

\* positions of the scanned part holding a byte that is neither valid nor a
\* skipped '-'
BadPositions(t, a) ==
    {k \in 1..Len(Scanned(t, a)) :
        /\ ~ValidChar(a, t[k])
        /\ ~(a = 1 /\ t[k] = HYPHEN)}

Min(S) == CHOOSE m \in S : \A n \in S : m <= n

\* C3: for a non-empty Standard text the outcome of the length and padding
\* checks depends only on the length and the trailing '=' run: InvalidLength
\* iff the length is not a multiple of 8; otherwise InvalidPadding iff the run
\* is longer than 6 or is 2 or 5; otherwise the scan runs over the first
\* len - r characters.  No character is scanned before a check fails.
C3_LengthAndPadding ==
    (phase = "decoded" /\ alpha = 0 /\ Len(text) > 0) =>
        LET n == Len(text)
            r == TrailingPads(text)
        IN  /\ InvalidLength(res) <=> (n % 8 # 0)
            /\ (n % 8 = 0) => (InvalidPadding(res) <=> (r > 6 \/ r \in {2, 5}))
            /\ (InvalidLength(res) \/ InvalidPadding(res)) =>
                   (res.i = 0 /\ res.b = <<>> /\ res.nbits = 0)
            /\ (n % 8 = 0 /\ LegalPads(r)) =>
                   /\ res.len = n - r
                   /\ Succeeded(res) \/ IllegalCharacter(res)

\* C3 witness: an 8-character Standard text with 2 trailing '=' and an
\* illegal character before them has been rejected with InvalidPadding.
C3_Witness ==
    /\ phase = "decoded"
    /\ alpha = 0
    /\ Len(text) = 8
    /\ TrailingPads(text) = 2
    /\ text[1] = HYPHEN
    /\ InvalidPadding(res)

\* C4: once the length/padding checks have passed (always, for Crockford),
\* decode fails with IllegalCharacter iff the scanned part holds a byte
\* outside the alphabet's valid set ('-' is skipped in Crockford); the error
\* carries the first such byte and its 1-based index in the original input.
C4_IllegalCharacter ==
    (phase = "decoded" /\ ChecksPass(text, alpha)) =>
        LET bad == BadPositions(text, alpha)
        IN  /\ IllegalCharacter(res) <=> (bad # {})
            /\ (bad = {}) => Succeeded(res)
            /\ (bad # {}) =>
                   res.ret[2].args = <<text[Min(bad)], text[Min(bad)], Min(bad)>>

\* C4 witness: a Crockford text whose illegal character comes after a full
\* 5-byte group and a skipped '-' has been rejected at that character.
C4_Witness ==
    /\ phase = "decoded"
    /\ alpha = 1
    /\ Len(text) > 10
    /\ text[9] = HYPHEN
    /\ text[10] = 77
    /\ text[11] = PAD_CHAR
    /\ IllegalCharacter(res)
    /\ res.ret[2].args = <<PAD_CHAR, PAD_CHAR, 11>>

\* C5 as stated: decode("MY!=====", standard) fails with IllegalCharacter
\* reporting the byte '!' at 1-based position 3.
C5_AsStated ==
    (phase = "decoded" /\ alpha = 0 /\ text = TextMYBang) =>
        /\ IllegalCharacter(res)
        /\ res.ret[2].args = <<33, 33, 3>>

\* C5 amended: "MY!=====" ends in 5 '=' and is rejected with InvalidPadding
\* before the scan; with a legal padding run, "MY!A====", decode fails with
\* IllegalCharacter reporting the byte '!' at 1-based position 3.
C5_Amended ==
    /\ (phase = "decoded" /\ alpha = 0 /\ text = TextMYBang) =>
           InvalidPadding(res)
    /\ (phase = "decoded" /\ alpha = 0 /\ text = TextMYBangA) =>
           /\ IllegalCharacter(res)
           /\ res.ret[2].args = <<33, 33, 3>>

\* C5 witness: "MY!A====" has been decoded with the Standard alphabet and
\* rejected.
C5_Witness ==
    /\ phase = "decoded"
    /\ alpha = 0
    /\ text = TextMYBangA
    /\ Failed(res)

\* the data symbols of a text: the scanned part without skipped '-'
DataSymbols(t, a) ==
    SelectSeq(Scanned(t, a), LAMBDA c : ~(a = 1 /\ c = HYPHEN))

\* the 5 bits of a symbol value, most significant first
ValueBits(v) ==
    <<(v \div 16) % 2, (v \div 8) % 2, (v \div 4) % 2, (v \div 2) % 2, v % 2>>

\* the big-endian concatenation of the 5-bit values of data symbols
BitsOfSymbols(ds, tbl) ==
    [k \in 1..(5 * Len(ds)) |->
        ValueBits(DecodeLookup(tbl, ds[((k - 1) \div 5) + 1]))[((k - 1) % 5) + 1]]

SymbolBits(t, a) ==
    BitsOfSymbols(DataSymbols(t, a), IF a = 0 THEN "RFC" ELSE "CROCKFORD")

\* byte j of a bit string
ByteAt(bits, j) ==
    128 * bits[8 * j - 7] + 64 * bits[8 * j - 6] + 32 * bits[8 * j - 5]
    + 16 * bits[8 * j - 4] + 8 * bits[8 * j - 3] + 4 * bits[8 * j - 2]
    + 2 * bits[8 * j - 1] + bits[8 * j]

\* the first floor(n / 8) bytes of an n-bit string
WholeBytes(bits) == [j \in 1..(Len(bits) \div 8) |-> ByteAt(bits, j)]

\* the bits a finished decode left in the accumulator
Leftover(f) == {k \in 0..(f.nbits - 1) : f.acc[k] = 1}

\* C9: a successful decode of k data symbols returns the first floor(5k/8)
\* bytes of the concatenated 5-bit values and leaves 5k mod 8 (< 8) bits in
\* the accumulator, dropped whatever their value: "MY======" and "MZ======"
\* both decode to "f".
C9_DropsLeftoverBits ==
    phase = "decoded" =>
        /\ Succeeded(res) =>
               /\ Returned(res) = WholeBytes(SymbolBits(text, alpha))
               /\ res.nbits < 8
               /\ res.nbits = (5 * Len(DataSymbols(text, alpha))) % 8
        /\ (alpha = 0 /\ text \in {TextMY, TextMZ}) =>
               (Succeeded(res) /\ Returned(res) = <<102>>)

\* C9 witness: "MZ======" decoded to "f" with a non-zero leftover bit, and
\* encoding "f" again gave a text other than "MZ======".
C9_Witness ==
    /\ phase = "reencoded"
    /\ alpha = 0
    /\ text = TextMZ
    /\ Returned(res) = <<102>>
    /\ Leftover(res) # {}
    /\ Returned(res2) = TextMY
    /\ Returned(res2) # text

----------------------------------------------------------------------------
(* Specification SpecCrock: decode a Crockford text and its rewritings *)

\* "91JP"
Text91JP == <<57, 49, 74, 80>>
\* "91-jp"
Text91jp == <<57, 49, 45, 106, 112>>

\* '0', '1', 'J' in every arrangement, "91JP", and every valid character as
\* the second of four (all 5 bits of its value reach the output)
CrockInputs ==
    SeqsUpTo({48, 49, 74}, MaxCrock)
    \cup {Text91JP}
    \cup {<<57, c, 57, 57>> : c \in {k \in 0..255 : ValidChar(1, k)}}

InitCrock ==
    /\ text \in CrockInputs
    /\ variant = text
    /\ alpha = 1
    /\ data = <<>>
    /\ res = NoCall
    /\ res2 = NoCall
    /\ phase = "init"
    /\ calls = <<>>
    /\ hist = <<>>

\* base32.decode(text, "crockford")
DecodeOriginal ==
    /\ phase = "init"
    /\ res' = decode_lua(text, alpha)
    /\ res2' = res'
    /\ phase' = "edit"
    /\ UNCHANGED <<calls, hist, data, alpha, text, variant>>

\* the text becomes v and is decoded
Rewrite(v) ==
    /\ phase = "edit"
    /\ variant' = v
    /\ res2' = decode_lua(v, alpha)
    /\ UNCHANGED <<calls, hist, data, alpha, text, res, phase>>

Hyphens(t) == Cardinality({k \in 1..Len(t) : t[k] = HYPHEN})

\* a '-' is inserted after position p
InsertHyphen(p) ==
    /\ Hyphens(variant) < MaxHyphens
    /\ Rewrite(SubSeq(variant, 1, p) \o <<HYPHEN>>
               \o SubSeq(variant, p + 1, Len(variant)))

\* the '-' at position p is deleted
DeleteHyphen(p) ==
    /\ variant[p] = HYPHEN
    /\ Rewrite(SubSeq(variant, 1, p - 1) \o SubSeq(variant, p + 1, Len(variant)))

\* the letter at position p changes case
ChangeCase(p) ==
    /\ IsUpper(variant[p]) \/ IsLower(variant[p])
    /\ Rewrite([variant EXCEPT ![p] =
                   IF IsUpper(variant[p]) THEN variant[p] + 32
                   ELSE variant[p] - 32])

\* O, o and 0 replace each other; I, i, L, l and 1 replace each other
Lookalikes(c) ==
    IF c \in {79, 111, 48} THEN {79, 111, 48} \ {c}
    ELSE IF c \in {73, 105, 76, 108, 49} THEN {73, 105, 76, 108, 49} \ {c}
    ELSE {}

\* the character at position p is replaced by a lookalike
ReplaceLookalike(p) ==
    \E c \in Lookalikes(variant[p]) : Rewrite([variant EXCEPT ![p] = c])

NextCrock ==
    \/ DecodeOriginal
    \/ \E p \in 0..Len(variant) : InsertHyphen(p)
    \/ \E p \in 1..Len(variant) : DeleteHyphen(p)
    \/ \E p \in 1..Len(variant) : ChangeCase(p)
    \/ \E p \in 1..Len(variant) : ReplaceLookalike(p)

SpecCrock == InitCrock /\ [][NextCrock]_vars

\* C6: a Crockford text that decodes successfully decodes to the same bytes
\* after any insertion or deletion of '-', any change of case and any
\* replacement of O/o by 0 or I/i/L/l by 1 (or back); a text made only of '-'
\* decodes to the empty byte string.
C6_CrockfordVariants ==
    (phase = "edit" /\ Succeeded(res)) =>
        /\ res2.ret = res.ret
        /\ (\A k \in 1..Len(variant) : variant[k] = HYPHEN) =>
               res2.ret = <<LuaString(<<>>)>>

\* C6 witness: "91JP" rewritten to "91-jp" has been decoded to the same,
\* non-empty bytes.
C6_Witness ==
    /\ phase = "edit"
    /\ text = Text91JP
    /\ variant = Text91jp
    /\ Succeeded(res)
    /\ Len(Returned(res)) = 2
    /\ res2.ret = res.ret

----------------------------------------------------------------------------
(* Specification SpecSteps: one decode call, statement group by statement  *)
(* group                                                                   *)

\* zero, one or two full groups, then 'M' and '-' in every arrangement, then
\* a run of 0 to 8 '='; and the texts the specification names
StepInputs ==
    {p \o t \o PadRun(q) :
        p \in {<<>>, FoobaText, FoobaText \o FoobaText},
        t \in SeqsUpTo({77, HYPHEN}, MaxStepText),
        q \in 0..8}
    \cup {FoobarText(k) : k \in 0..6}
    \cup {TextMY, TextMZ, TextMYBang, TextMYBangA}

InitSteps ==
    /\ text \in StepInputs
    /\ alpha \in {0, 1}
    /\ data = <<>>
    /\ variant = <<>>
    /\ res = NoCall
    /\ res2 = NoCall
    /\ phase = "init"
    /\ calls = <<>>
    /\ hist = <<>>

\* base32.decode(text, alpha) is entered
EnterDecode ==
    /\ phase = "init"
    /\ res' = DecodeEnter(res, text, alpha)
    /\ phase' = "running"
    /\ UNCHANGED <<calls, hist, data, alpha, text, variant, res2>>

\* the statement group at pc is executed
Exec(pc) ==
    /\ phase = "running"
    /\ res.pc = pc
    /\ res' = DecodeStep(res)
    /\ phase' = IF res'.pc = "return" THEN "returned" ELSE "running"
    /\ UNCHANGED <<calls, hist, data, alpha, text, variant, res2>>

ExecEmpty == Exec("empty")
ExecSelect == Exec("select")
ExecStrip == Exec("strip")
ExecPadCheck == Exec("padcheck")
ExecScan == Exec("scan")
ExecFlush == Exec("flush")
ExecDrain == Exec("drain")
ExecPush == Exec("push")

NextSteps ==
    \/ EnterDecode
    \/ ExecEmpty
    \/ ExecSelect
    \/ ExecStrip
    \/ ExecPadCheck
    \/ ExecScan
    \/ ExecFlush
    \/ ExecDrain
    \/ ExecPush

SpecSteps == InitSteps /\ [][NextSteps]_vars

\* C7: a decode that ends in InvalidLength, InvalidPadding or
\* IllegalCharacter returns nil and the error and no string, also when 5-byte
\* groups are already in the output buffer; the input text is never changed.
C7_NoPartialOutput ==
    /\ phase # "init" => res.src = text
    /\ (phase = "returned" /\ ~Succeeded(res)) =>
           /\ InvalidLength(res) \/ InvalidPadding(res) \/ IllegalCharacter(res)
           /\ Len(res.ret) = 2
           /\ res.ret[1] = LuaNil
           /\ \A k \in 1..Len(res.ret) : res.ret[k].type # "string"

\* C7 witness: a decode failed with IllegalCharacter after a 5-byte group
\* had been appended to the output buffer.
C7_Witness ==
    /\ phase = "returned"
    /\ IllegalCharacter(res)
    /\ Len(res.b) >= 5
    /\ res.ret[1] = LuaNil

\* the data symbols among the first n characters of the frame's input
Consumed(f, n) ==
    SelectSeq(SubSeq(f.src, 1, n),
              LAMBDA c : ~(f.tbl = "CROCKFORD" /\ c = HYPHEN))

\* the accumulator holds exactly the last nbits bits of the data symbols ds,
\* and nothing above them
HoldsPending(f, ds) ==
    LET bits == BitsOfSymbols(ds, f.tbl)
    IN  /\ \A j \in 1..f.nbits : f.acc[f.nbits - j] = bits[Len(bits) - f.nbits + j]
        /\ \A k \in f.nbits..63 : f.acc[k] = 0

\* the output buffer holds the bytes of the complete 40-bit groups of ds
HoldsFlushed(f, ds, groups) ==
    f.b = SubSeq(WholeBytes(BitsOfSymbols(ds, f.tbl)), 1, 5 * groups)

\* C10: during the scan the held-bit count is a multiple of 5 in 0..40 and
\* the accumulator is below 2^count; the flush fires at exactly 40 bits, the
\* bytes flushed so far are the complete 40-bit groups of the symbols read,
\* the accumulator holds exactly the pending bits (none lost, none left over
\* after a flush) and the register never overflows.
C10_AccumulatorInvariant ==
    /\ (phase = "running" /\ res.pc = "scan") =>
           LET ds == Consumed(res, res.i)
           IN  /\ res.nbits = 5 * (Len(ds) % 8)
               /\ res.nbits \in {0, 5, 10, 15, 20, 25, 30, 35}
               /\ HoldsPending(res, ds)
               /\ HoldsFlushed(res, ds, Len(ds) \div 8)
    /\ (phase = "running" /\ res.pc = "flush") =>
           LET ds == Consumed(res, res.i + 1)
           IN  /\ res.nbits = 5 * ((Len(ds) - 1) % 8) + 5
               /\ res.nbits \in {5, 10, 15, 20, 25, 30, 35, 40}
               /\ HoldsPending(res, ds)
               /\ HoldsFlushed(res, ds, (Len(ds) - 1) \div 8)

\* C10 witness: the scan is back at the loop head right after the second
\* flush of a text with two full groups: 10 bytes flushed, nothing pending.
C10_Witness ==
    /\ phase = "running"
    /\ res.pc = "scan"
    /\ res.i = 16
    /\ Len(res.b) = 10
    /\ res.nbits = 0
    /\ res.acc = Zero(64)

----------------------------------------------------------------------------
(* Specification SpecThreads: threads of calls, interleaved statement      *)
(* group by statement group.  The locals are per call; errno is per thread *)
(* and keeps its value from one call of the thread to the next.            *)

Threads == {1, 2}

\* decode arguments: "" ; "M" and "M=" (Crockford); "MY=====" (7 characters)
\* and "MZ======" (Standard)
ThreadTexts ==
    {<<<<>>, 0>>, <<<<77>>, 1>>, <<<<77, 61>>, 1>>,
     <<<<77, 89, 61, 61, 61, 61, 61>>, 0>>, <<TextMZ, 0>>}

\* encode arguments: "" and "f" (Standard)
ThreadData == {<<<<>>, 0>>, <<<<102>>, 0>>}

InitThreads ==
    /\ calls = [th \in Threads |-> NoCall]
    /\ hist = [th \in Threads |-> 0]
    /\ data = <<>>
    /\ alpha = 0
    /\ text = <<>>
    /\ variant = <<>>
    /\ res = NoCall
    /\ res2 = NoCall
    /\ phase = "threads"

\* thread th calls base32.decode
CallDecode(th) ==
    /\ calls[th].pc = "return"
    /\ hist[th] < MaxCalls
    /\ \E a \in ThreadTexts :
          calls' = [calls EXCEPT ![th] = DecodeEnter(calls[th], a[1], a[2])]
    /\ hist' = [hist EXCEPT ![th] = hist[th] + 1]
    /\ UNCHANGED <<data, alpha, text, variant, res, res2, phase>>

\* thread th calls base32.encode
CallEncode(th) ==
    /\ calls[th].pc = "return"
    /\ hist[th] < MaxCalls
    /\ \E a \in ThreadData :
          calls' = [calls EXCEPT ![th] = EncodeEnter(calls[th], a[1], a[2])]
    /\ hist' = [hist EXCEPT ![th] = hist[th] + 1]
    /\ UNCHANGED <<data, alpha, text, variant, res, res2, phase>>

\* thread th executes the next statement group of its call
Advance(th) ==
    /\ calls[th].pc # "return"
    /\ calls' = [calls EXCEPT ![th] = Step(calls[th])]
    /\ UNCHANGED <<hist, data, alpha, text, variant, res, res2, phase>>

NextThreads ==
    \E th \in Threads : CallDecode(th) \/ CallEncode(th) \/ Advance(th)

SpecThreads == InitThreads /\ [][NextThreads]_vars

\* what the same call returns when it is the only call ever made
Alone(f) ==
    IF f.fn = "decode" THEN decode_lua(f.src, f.opt).ret
    ELSE encode_lua(f.src, f.opt).ret

\* C8: whatever calls a thread made before and whatever other threads are
\* doing, a call returns what the same call returns when made alone; errno,
\* the only state that outlives a call, does not decide any result.
C8_CallsIndependent ==
    \A th \in Threads :
        (calls[th].fn # "none" /\ calls[th].pc = "return") =>
            calls[th].ret = Alone(calls[th])

\* C8 witness: a thread whose previous call left errno set and bits in the
\* accumulator has returned from a second decode, while the other thread is
\* in the middle of a call.
C8_Witness ==
    \E th \in Threads, ot \in Threads :
        /\ th # ot
        /\ hist[th] = 2
        /\ calls[th].fn = "decode"
        /\ calls[th].pc = "return"
        /\ calls[th].src = <<>>
        /\ calls[th].errno # 0
        /\ calls[ot].pc \notin {"return", "empty"}

====
